---- MODULE Spec2Model ----
(***************************************************************************)
(* Verification model of the climate pipeline's system-of-record logic:    *)
(* the run observability store (run_logger.py), the freshness              *)
(* classification (run_logger.py, cli/health.py), the orchestrated flows   *)
(* (prefect_flow.py, pipeline.py) and the ingestion windowing              *)
(* (fetch_daily_weather.py).                                               *)
(*                                                                         *)
(* Dates are day numbers; started_at timestamps are small integers.        *)
(***************************************************************************)
EXTENDS Integers, Sequences, FiniteSets, TLC

VARIABLES
    wh,                 \* the warehouse's data tables (bronze_daily_weather, gold_ml_features)
    schema,             \* TRUE once pipeline_run_log / pipeline_ml_metrics exist
    pipeline_run_log,   \* rows of pipeline_run_log, in insertion order
    pipeline_ml_metrics,\* rows of pipeline_ml_metrics, in insertion order
    today,              \* current UTC date
    ret,                \* outcome of the most recent store operation
    health,             \* outcome of the most recent health._classify_freshness call
    writers,            \* position and locals of each concurrent log_pipeline_run call
    insert_view,        \* per inserted row: rows present when its call read MAX(id)
    flow,               \* the pipeline execution in progress (flow or pipeline.main)
    runs,               \* pipeline executions started so far
    work,               \* what ingestion and training have produced (landing zone, model artifact)
    files,              \* landing zone: <city_slug>/<year>.json, <<>> when absent
    local_today,        \* date.today() of the ingestion process
    ing,                \* the fetch-daily-weather invocation in progress
    fetch,              \* the fetch_daily_with_retries call in progress
    ml,                 \* the prepare_data call of ml/train.py: its arguments and outcome
    train,              \* the climate-train-baseline process (train.main) and the
                        \* pipeline_ml_metrics table of each warehouse file
    predict,            \* the climate-predict-baseline process (predict.main), the
                        \* predictions table and the predictions CSV
    check,              \* the climate-check-ingestion process (health.check_ingestion_main)
    client              \* the OpenMeteoClient.fetch_daily_history call in progress

obsVars == <<wh, schema, pipeline_run_log, pipeline_ml_metrics, today, ret, health>>
concVars == <<writers, insert_view>>

flowVars == <<flow, runs, work>>

fetchVars == <<files, local_today, ing, fetch>>

mlVars == <<ml, train, predict>>

cliVars == <<check, client>>

vars == <<cliVars, obsVars, concVars, flowVars, fetchVars, mlVars, cliVars>>

(***************************************************************************)
(* Bounds and input sets                                                   *)
(***************************************************************************)
MaxLog == 2             \* rows per log table
MaxDay == 10            \* dates are 0..MaxDay
MaxRuns == 2            \* pipeline executions
MaxRetries == 2         \* largest open_meteo.max_retries setting
YearLen == 2            \* days in a calendar year
CurrentYear == 1        \* date.today().year; calendar years are 0..CurrentYear
MaxRecords == 2         \* longest array of a response body
MaxOuterRetries == 3    \* --max-retries of a fetch_daily_with_retries call followed request by request
MaxClientRetries == 2   \* max_retries of fetch_daily_history (default 5)
MaxScored == 2          \* rows of the feature table that inference reads
MaxRows == 4            \* rows of the feature table handed to prepare_data

NoDate == -1000         \* SQL NULL / Python None for a date
None == "None"

Dates == 0..MaxDay
Statuses == {"success", "failed"}
StartTimes == {1, 2}
\* (rows_bronze, rows_gold_ml) pairs a caller may put in a record
RecordCounts == {<<1, 2>>, <<3, 1>>}
\* states the transform layer may leave the data tables in:
\* [rows_bronze, rows_gold_ml, bronze_max_date, gold (year, month) date]
WarehouseStates ==
    {[tables |-> TRUE, rows_bronze |-> 0, rows_gold_ml |-> 0,
      bronze_max_date |-> NoDate, gold_latest |-> NoDate]}
    \cup
    {[tables |-> TRUE, rows_bronze |-> c[1], rows_gold_ml |-> c[2],
      bronze_max_date |-> d, gold_latest |-> 0] :
        c \in {<<4, 2>>, <<5, 5>>}, d \in {MaxDay - 1, NoDate}}

Writers == {"w1", "w2", "w3"}
IdleWriter == [pc |-> "idle", record |-> <<>>, next_id |-> 0, seen |-> 0]

\* dim_city.csv, in file order
CityList == <<"Lisbon", "San Diego">>
Cities == {CityList[i] : i \in 1..Len(CityList)}
Years == 0..CurrentYear
FetchDates == 0..((CurrentYear + 1) * YearLen - 1)
\* time_window / --start-date, --end-date values: the first and last day of a year
WindowDates == {y * YearLen : y \in Years} \cup {y * YearLen + YearLen - 1 : y \in Years}
\* open_meteo.daily_variables
DailyVars == {"temperature_2m_max", "precipitation_sum"}

\* the arrays of a response: a length, or Missing (key absent) or NotList
Missing == -1
NotList == -2
Payload(daily, time, t, p) ==
    [daily |-> daily, time |-> time,
     series |-> [v \in DailyVars |-> IF v = "temperature_2m_max" THEN t ELSE p]]
\* what client.fetch_daily_history may do on one call: raise, or return one of these
ClientError == [daily |-> "raise"]
Responses ==
    {ClientError,
     Payload("missing", Missing, Missing, Missing),
     Payload("dict", Missing, 1, 1),
     Payload("dict", NotList, 1, 1),
     Payload("dict", 0, 0, 0),
     Payload("dict", 2, 2, Missing),
     Payload("dict", 2, 2, NotList),
     Payload("dict", 2, 2, 1),
     Payload("dict", 1, 1, 1),
     Payload("dict", 2, 2, 2)}

\* every shape of response body validate_daily_response tells apart
ArrayShapes == {Missing, NotList} \cup (0..MaxRecords)
AllPayloads ==
    {Payload(daily, time, t, p) :
        daily \in {"missing", "notdict", "dict"},
        time \in ArrayShapes, t \in ArrayShapes, p \in ArrayShapes}

IdleIngestion ==
    [mode |-> "idle", pc |-> "idle", start_date |-> 0, end_date |-> 0,
     max_retries |-> 0, pos |-> 0,
     total_requests |-> 0, successes |-> 0, failures |-> 0, failed_cities |-> {},
     requested |-> <<>>, skipped |-> <<>>, outcomes |-> <<>>,
     prev |-> <<>>, exit_code |-> <<>>, summary |-> <<>>]
NoFetch ==
    [pc |-> "none", attempt |-> 0, max_retries |-> 0, calls |-> 0, oks |-> <<>>,
     sleeps |-> <<>>, data |-> <<>>, n_records |-> 0]

\* warehouse files: run_logger.WAREHOUSE_PATH (<project_root>/data/warehouse/
\* climate.duckdb), get_duckdb_path() without DUCKDB_PATH (under get_paths.PROJECT_ROOT),
\* and some other file
Paths == {"run_logger_default", "get_paths_default", "other"}
\* classes of the label is_event_next_month
Classes == {0, 1}
MetricNames ==
    {"accuracy", "roc_auc", "precision_0", "recall_0", "f1_0",
     "precision_1", "recall_1", "f1_1"}

\* no training process running, no metrics row anywhere
IdleTrain ==
    [pc |-> "idle", db_path |-> "run_logger_default",
     test_classes |-> {}, pred_classes |-> {}, has_proba |-> FALSE,
     metrics |-> <<>>,
     record |-> <<>>, log_error |-> "none", conns |-> 0, hist |-> <<>>]
\* check_ingestion_main not started
IdleCheck == [pc |-> "idle", db_exists |-> TRUE, query_ok |-> TRUE, df |-> <<>>,
              exit_code |-> <<>>]
\* no fetch_daily_history call made yet by the current fetch_daily_with_retries
IdleClient ==
    [pc |-> "idle", attempt |-> 0, max_retries |-> 0, responses |-> <<>>,
     sleeps |-> <<>>, calls |-> 0, requests |-> 0]

\* predict.main not started; no predictions table, no CSV, no earlier run
IdlePredict ==
    [pc |-> "idle", conns |-> 0, df |-> <<>>, columns_ok |-> TRUE, model |-> "none",
     df_pred |-> <<>>, table |-> <<>>, csv |-> <<>>,
     before |-> <<>>, last_input |-> <<>>, runs |-> 0]
\* --model-path and --metrics-path before any training run
NoTrainFiles == [model_file |-> FALSE, metrics_file |-> <<>>]
NoMetricsTables == [p \in Paths |-> <<>>]

\* no prepare_data call yet
IdleML == [pc |-> "idle", df |-> <<>>, columns_ok |-> TRUE, train_fraction |-> <<3, 4>>,
           result |-> <<>>]

IdleFlow ==
    [kind |-> "none", pc |-> "idle", tries |-> 0,
     with_dbt_tests |-> FALSE, with_tests |-> FALSE,
     hist |-> <<>>, started_at |-> 0, stats |-> <<>>,
     base_len |-> 0, db_failed |-> FALSE, obs_error |-> "none"]

NoTables == [tables |-> FALSE, rows_bronze |-> 0, rows_gold_ml |-> 0,
             bronze_max_date |-> NoDate, gold_latest |-> NoDate]

(***************************************************************************)
(* run_logger.py                                                           *)
(***************************************************************************)

\* PipelineRunRecord values handed to log_pipeline_run
PipelineRunRecord(status, started_at, counts) ==
    [flow_name |-> "daily-climate-pipeline", run_mode |-> "daily",
     status |-> status, started_at |-> started_at, finished_at |-> started_at,
     rows_bronze |-> counts[1], rows_gold_ml |-> counts[2],
     rows_bronze_delta |-> 0, rows_gold_ml_delta |-> 0,
     bronze_max_date |-> NoDate, gold_ml_max_date |-> NoDate,
     freshness_status |-> "unknown"]

RecordInputs ==
    {PipelineRunRecord(s, t, c) : s \in Statuses, t \in StartTimes, c \in RecordCounts}

\* MLMetricRecord values handed to log_ml_metrics (metric values are opaque here;
\* pipeline_run_id 0 stands for NULL)
MLMetricRecord(run_id) ==
    [pipeline_run_id |-> run_id, model_name |-> "baseline_random_forest"]

MaxOf(S) == CHOOSE x \in S : \A y \in S : y <= x

Ids(log) == {log[i].id : i \in 1..Len(log)}

\* SELECT COALESCE(MAX(id) + 1, 1) FROM pipeline_run_log
_compute_next_id_skip(log) == IF log = <<>> THEN 1 ELSE MaxOf(Ids(log)) + 2
_compute_next_id_max(log) == IF log = <<>> THEN 1 ELSE MaxOf(Ids(log))
_compute_next_id(log) == IF log = <<>> THEN 1 ELSE MaxOf(Ids(log)) + 1

\* SELECT COALESCE(MAX(id), 0) + 1 FROM pipeline_ml_metrics
ml_next_id(log) == (IF log = <<>> THEN 0 ELSE MaxOf(Ids(log))) + 1

\* WHERE status = 'success'
SuccessRows_any(log) == {i \in 1..Len(log) : TRUE}
SuccessRows(log) == {i \in 1..Len(log) : log[i].status = "success"}

\* ORDER BY started_at DESC LIMIT 1: the rows the query may return (rows with
\* equal started_at are returned in an unspecified order)
LastSuccess(log) ==
    {i \in SuccessRows(log) :
        \A j \in SuccessRows(log) : log[j].started_at <= log[i].started_at}

\* freshness classification of compute_run_stats
Freshness_off(bronze_max_date, now) ==
    IF bronze_max_date = NoDate THEN "unknown"
    ELSE IF now - bronze_max_date < 1 THEN "fresh"
    ELSE IF now - bronze_max_date <= 7 THEN "stale"
    ELSE "very_stale"
Freshness(bronze_max_date, now) ==
    IF bronze_max_date = NoDate THEN "unknown"
    ELSE IF now - bronze_max_date <= 1 THEN "fresh"
    ELSE IF now - bronze_max_date <= 7 THEN "stale"
    ELSE "very_stale"

\* health._classify_freshness
_classify_freshness(max_date, now) ==
    IF max_date = NoDate THEN "unknown"
    ELSE LET lag_days == now - max_date IN
         IF lag_days <= 1 THEN "fresh"
         ELSE IF lag_days <= 7 THEN "stale"
         ELSE "very_stale"

\* PipelineRunStats computed against warehouse w with baseline row `base`
\* (0 when the query returned no row)
PipelineRunStats(w, log, base, now) ==
    [rows_bronze |-> w.rows_bronze,
     rows_gold_ml |-> w.rows_gold_ml,
     rows_bronze_delta |->
        IF base = 0 THEN w.rows_bronze ELSE w.rows_bronze - log[base].rows_bronze,
     rows_gold_ml_delta |->
        IF base = 0 THEN w.rows_gold_ml ELSE w.rows_gold_ml - log[base].rows_gold_ml,
     bronze_max_date |-> w.bronze_max_date,
     gold_ml_max_date |-> w.gold_latest,
     freshness_status |-> Freshness(w.bronze_max_date, now)]

\* rows written by the statements of compute_run_stats after _ensure_schema
StatsWrites_insert(log) ==
    IF Len(log) <= MaxLog
    THEN Append(log, [PipelineRunRecord("success", 1, <<0, 0>>) EXCEPT !.flow_name = "stats"]
                     @@ [id |-> _compute_next_id(log)])
    ELSE log
StatsWrites(log) == log

\* outcome of a call: the value returned (as a one-element sequence; <<>> for
\* None) or an exception raised
Returned(op, val) == [op |-> op, raised |-> FALSE, val |-> val]
Raised(op) == [op |-> op, raised |-> TRUE, val |-> <<>>]

\* compute_run_stats(): _ensure_schema, then the reads; raises when a data
\* table is missing (after the schema was ensured)
ComputeRunStats ==
    /\ schema' = TRUE
    /\ pipeline_run_log' = StatsWrites(pipeline_run_log)
    /\ IF ~wh.tables
       THEN ret' = Raised("compute_run_stats")
       ELSE \E base \in (IF LastSuccess(pipeline_run_log) = {} THEN {0}
                         ELSE LastSuccess(pipeline_run_log)) :
                ret' = Returned("compute_run_stats",
                                <<PipelineRunStats(wh, pipeline_run_log, base, today)>>)
    /\ UNCHANGED <<wh, pipeline_ml_metrics, today, health>>
    /\ UNCHANGED <<concVars, flowVars, fetchVars, mlVars, cliVars>>

\* the INSERT of log_pipeline_run
InsertRun(log, record, next_id) == Append(log, record @@ [id |-> next_id])

\* log_pipeline_run(record): _ensure_schema, _compute_next_id, INSERT
LogPipelineRun(record) ==
    /\ Len(pipeline_run_log) < MaxLog
    /\ schema' = TRUE
    /\ pipeline_run_log' =
          InsertRun(pipeline_run_log, record, _compute_next_id(pipeline_run_log))
    /\ ret' = Returned("log_pipeline_run", <<>>)
    /\ UNCHANGED <<wh, pipeline_ml_metrics, today, health>>
    /\ UNCHANGED <<concVars, flowVars, fetchVars, mlVars, cliVars>>

\* log_ml_metrics(record): _ensure_schema, next id, INSERT
LogMlMetrics(record) ==
    /\ Len(pipeline_ml_metrics) < MaxLog
    /\ schema' = TRUE
    /\ pipeline_ml_metrics' =
          Append(pipeline_ml_metrics, record @@ [id |-> ml_next_id(pipeline_ml_metrics)])
    /\ ret' = Returned("log_ml_metrics", <<>>)
    /\ UNCHANGED <<wh, pipeline_run_log, today, health>>
    /\ UNCHANGED <<concVars, flowVars, fetchVars, mlVars, cliVars>>

\* the transform layer (dbt) rebuilds the data tables
Transform ==
    /\ \E w \in WarehouseStates : wh' = w /\ w # wh
    /\ ret' = Returned("dbt", <<>>)
    /\ UNCHANGED <<schema, pipeline_run_log, pipeline_ml_metrics, today, health>>
    /\ UNCHANGED <<concVars, flowVars, fetchVars, mlVars, cliVars>>

\* health._load_ingestion_summary applies _classify_freshness to a last_date
ClassifyFreshness(max_date) ==
    /\ health' = <<[max_date |-> max_date,
                    freshness_status |-> _classify_freshness(max_date, today)]>>
    /\ UNCHANGED <<wh, schema, pipeline_run_log, pipeline_ml_metrics, today, ret>>
    /\ UNCHANGED <<concVars, flowVars, fetchVars, mlVars, cliVars>>

\* midnight UTC passes; results computed on the previous day are dropped
Tick ==
    /\ today < MaxDay
    /\ today' = today + 1
    /\ ret' = Returned("tick", <<>>)
    /\ health' = <<>>
    /\ UNCHANGED <<wh, schema, pipeline_run_log, pipeline_ml_metrics>>
    /\ UNCHANGED <<concVars, flowVars, fetchVars, mlVars, cliVars>>

InitConc ==
    /\ writers = [w \in Writers |-> IdleWriter]
    /\ insert_view = <<>>

InitFetch ==
    /\ files = [c \in Cities, y \in Years |-> <<>>]
    /\ local_today = CurrentYear * YearLen
    /\ ing = IdleIngestion
    /\ fetch = NoFetch

InitFlow ==
    /\ flow = IdleFlow
    /\ runs = 0
    /\ work = [landing |-> 0, model |-> 0]
    /\ ml = IdleML
    /\ train = [proc |-> IdleTrain, files |-> NoTrainFiles, tables |-> NoMetricsTables]
    /\ predict = IdlePredict
    /\ check = IdleCheck
    /\ client = IdleClient

Init ==
    /\ InitConc
    /\ InitFlow
    /\ InitFetch
    /\ wh = NoTables
    /\ schema = FALSE
    /\ pipeline_run_log = <<>>
    /\ pipeline_ml_metrics = <<>>
    /\ today = MaxDay
    /\ ret = Returned("init", <<>>)
    /\ health = <<>>

Next ==
    \/ ComputeRunStats
    \/ \E record \in RecordInputs : LogPipelineRun(record)
    \/ \E run_id \in {0, 1} : LogMlMetrics(MLMetricRecord(run_id))
    \/ Transform

Spec == Init /\ [][Next]_vars

(***************************************************************************)
(* Freshness classification over every date and clock value                *)
(***************************************************************************)
InitFresh ==
    /\ InitConc
    /\ InitFlow
    /\ InitFetch
    /\ \E d \in Dates \cup {NoDate} :
          wh = [tables |-> TRUE, rows_bronze |-> 1, rows_gold_ml |-> 1,
                bronze_max_date |-> d, gold_latest |-> 0]
    /\ today \in Dates
    /\ schema = FALSE
    /\ pipeline_run_log = <<>>
    /\ pipeline_ml_metrics = <<>>
    /\ ret = Returned("init", <<>>)
    /\ health = <<>>

NextFresh ==
    \/ ComputeRunStats
    \/ \E d \in Dates \cup {NoDate} : ClassifyFreshness(d)
    \/ Tick

SpecFresh == InitFresh /\ [][NextFresh]_vars

(***************************************************************************)
(* log_pipeline_run called by writers whose statements may interleave      *)
(***************************************************************************)
\* conn = duckdb.connect(); _ensure_schema(conn); next_id = _compute_next_id(conn)
WriterBegin(w, record) ==
    /\ writers[w].pc = "idle"
    /\ Len(pipeline_run_log) + Cardinality({v \in Writers : writers[v].pc # "idle"}) < MaxLog
    /\ schema' = TRUE
    /\ writers' = [writers EXCEPT ![w] =
                      [pc |-> "insert", record |-> <<record>>,
                       next_id |-> _compute_next_id(pipeline_run_log),
                       seen |-> Len(pipeline_run_log)]]
    /\ UNCHANGED <<wh, pipeline_run_log, pipeline_ml_metrics, today, ret, health, insert_view>>
    /\ UNCHANGED <<flowVars, fetchVars, mlVars, cliVars>>

\* conn.execute(INSERT ...).close(); conn.close()
WriterInsert(w) ==
    /\ writers[w].pc = "insert"
    /\ pipeline_run_log' =
          InsertRun(pipeline_run_log, writers[w].record[1], writers[w].next_id)
    /\ insert_view' = Append(insert_view, writers[w].seen)
    /\ writers' = [writers EXCEPT ![w] = IdleWriter]
    /\ ret' = Returned("log_pipeline_run", <<>>)
    /\ UNCHANGED <<wh, schema, pipeline_ml_metrics, today, health>>
    /\ UNCHANGED <<flowVars, fetchVars, mlVars, cliVars>>

NextConc ==
    \/ \E w \in Writers, record \in RecordInputs : WriterBegin(w, record)
    \/ \E w \in Writers : WriterInsert(w)

SpecConc == Init /\ [][NextConc]_vars

(***************************************************************************)
(* prefect_flow.py (daily_climate_flow, backfill_climate_flow) and         *)
(* pipeline.py (main)                                                      *)
(***************************************************************************)
TaskSteps == {"ingest", "dbt_build", "dbt_tests", "train", "pytests"}
Ended == {"idle", "completed", "failed"}

\* the statement that follows `step` in the body of the flow / of main
NextStep_train_first(kind, step, with_dbt_tests, with_tests) ==
    LET after_tests == IF kind = "main" THEN "completed" ELSE "compute_run_stats" IN
    CASE step = "ingest" -> "train"
      [] step = "train" -> "dbt_build"
      [] step = "dbt_build" -> IF with_dbt_tests THEN "dbt_tests"
                               ELSE IF with_tests THEN "pytests" ELSE after_tests
      [] step = "dbt_tests" -> IF with_tests THEN "pytests" ELSE after_tests
      [] step = "pytests" -> after_tests
      [] step = "compute_run_stats" -> "log_pipeline_run"
      [] step = "log_pipeline_run" -> "completed"
NextStep(kind, step, with_dbt_tests, with_tests) ==
    LET after_tests == IF kind = "main" THEN "completed" ELSE "compute_run_stats" IN
    CASE step = "ingest" -> "dbt_build"
      [] step = "dbt_build" -> IF with_dbt_tests THEN "dbt_tests" ELSE "train"
      [] step = "dbt_tests" -> "train"
      [] step = "train" -> IF with_tests THEN "pytests" ELSE after_tests
      [] step = "pytests" -> after_tests
      [] step = "compute_run_stats" -> "log_pipeline_run"
      [] step = "log_pipeline_run" -> "completed"

\* @task(retries=...); pipeline.main exits on the first failure
Retries(kind, step) ==
    IF kind = "main" THEN 0
    ELSE CASE step = "ingest" -> 3
           [] step \in {"dbt_build", "dbt_tests"} -> 2
           [] step \in {"train", "pytests"} -> 1

\* where log_run_to_duckdb leaves the flow after an exception of
\* compute_run_stats or log_pipeline_run
ObsErrorOutcome_raise == "failed"
ObsErrorOutcome == "completed"

Event(ev, step) == [ev |-> ev, step |-> step]

\* python -m ...prefect_flow daily|backfill, or pipeline.main
StartFlow(kind, with_dbt_tests, with_tests) ==
    /\ flow.pc \in Ended
    /\ runs < MaxRuns
    /\ runs' = runs + 1
    /\ flow' = [IdleFlow EXCEPT !.kind = kind, !.pc = "ingest",
                                !.with_dbt_tests = with_dbt_tests,
                                !.with_tests = with_tests,
                                !.started_at = runs + 1,
                                !.base_len = Len(pipeline_run_log)]
    /\ UNCHANGED <<obsVars, concVars, work, fetchVars, mlVars, cliVars>>

Started(step) ==
    IF flow.tries = 0 THEN Append(flow.hist, Event("start", step)) ELSE flow.hist

\* one attempt of the current task ends with return code 0
TaskSucceeds ==
    /\ flow.pc \in TaskSteps
    /\ flow' = [flow EXCEPT
                  !.pc = NextStep(flow.kind, flow.pc, flow.with_dbt_tests, flow.with_tests),
                  !.tries = 0,
                  !.hist = Append(Started(flow.pc), Event("done", flow.pc))]
    /\ CASE flow.pc = "ingest" ->
              /\ work' = [work EXCEPT !.landing = @ + 1]
              /\ UNCHANGED <<wh, schema, pipeline_ml_metrics>>
         [] flow.pc = "dbt_build" ->
              /\ wh' \in WarehouseStates
              /\ UNCHANGED <<work, schema, pipeline_ml_metrics>>
         [] flow.pc = "train" ->
              \* climate-train-baseline writes the model, then logs metrics (best effort)
              /\ work' = [work EXCEPT !.model = @ + 1]
              /\ \E logged \in BOOLEAN :
                    IF logged
                    THEN /\ schema' = TRUE
                         /\ pipeline_ml_metrics' =
                              Append(pipeline_ml_metrics,
                                     MLMetricRecord(0) @@ [id |-> ml_next_id(pipeline_ml_metrics)])
                    ELSE UNCHANGED <<schema, pipeline_ml_metrics>>
              /\ UNCHANGED wh
         [] OTHER -> UNCHANGED <<wh, schema, pipeline_ml_metrics, work>>
    /\ UNCHANGED <<pipeline_run_log, today, ret, health, concVars, runs, fetchVars, mlVars, cliVars>>

\* one attempt of the current task fails: retried, or the execution fails
TaskFails ==
    /\ flow.pc \in TaskSteps
    /\ flow' = IF flow.tries < Retries(flow.kind, flow.pc)
               THEN [flow EXCEPT !.tries = @ + 1, !.hist = Started(flow.pc)]
               ELSE [flow EXCEPT !.pc = "failed", !.hist = Started(flow.pc)]
    /\ UNCHANGED <<obsVars, concVars, runs, work, fetchVars, mlVars, cliVars>>

\* log_run_to_duckdb, step 1: stats = compute_run_stats(WAREHOUSE_PATH)
FlowComputeStats ==
    /\ flow.pc = "compute_run_stats"
    /\ \E db_ok \in BOOLEAN :
        IF db_ok /\ wh.tables
        THEN /\ schema' = TRUE
             /\ \E base \in (IF LastSuccess(pipeline_run_log) = {} THEN {0}
                             ELSE LastSuccess(pipeline_run_log)) :
                  flow' = [flow EXCEPT
                     !.pc = NextStep(flow.kind, flow.pc, flow.with_dbt_tests, flow.with_tests),
                     !.stats = <<PipelineRunStats(wh, pipeline_run_log, base, today)>>,
                     !.hist = Append(flow.hist, Event("start", "compute_run_stats"))]
        ELSE /\ schema' = (schema \/ db_ok)
             /\ flow' = [flow EXCEPT
                     !.pc = ObsErrorOutcome,
                     !.obs_error = "compute_run_stats",
                     !.db_failed = ~db_ok,
                     !.hist = Append(flow.hist, Event("start", "compute_run_stats"))]
    /\ UNCHANGED <<wh, pipeline_run_log, pipeline_ml_metrics, today, ret, health>>
    /\ UNCHANGED <<concVars, runs, work, fetchVars, mlVars, cliVars>>

\* the record log_run_to_duckdb builds from the stats
FlowRecord(f) ==
    LET stats == f.stats[1] IN
    [flow_name |-> IF f.kind = "daily" THEN "daily-climate-pipeline"
                   ELSE "backfill-climate-pipeline",
     run_mode |-> f.kind,
     status |-> "success",
     started_at |-> f.started_at, finished_at |-> f.started_at,
     rows_bronze |-> stats.rows_bronze, rows_gold_ml |-> stats.rows_gold_ml,
     rows_bronze_delta |-> stats.rows_bronze_delta,
     rows_gold_ml_delta |-> stats.rows_gold_ml_delta,
     bronze_max_date |-> stats.bronze_max_date,
     gold_ml_max_date |-> stats.gold_ml_max_date,
     freshness_status |-> stats.freshness_status]

\* log_run_to_duckdb, steps 2 and 3: build the record, log_pipeline_run(record)
FlowLogRun ==
    /\ flow.pc = "log_pipeline_run"
    /\ \E db_ok \in BOOLEAN :
        IF db_ok
        THEN /\ pipeline_run_log' =
                  InsertRun(pipeline_run_log, FlowRecord(flow),
                            _compute_next_id(pipeline_run_log))
             /\ flow' = [flow EXCEPT
                     !.pc = NextStep(flow.kind, flow.pc, flow.with_dbt_tests, flow.with_tests),
                     !.hist = Append(flow.hist, Event("start", "log_pipeline_run"))]
        ELSE /\ flow' = [flow EXCEPT
                     !.pc = ObsErrorOutcome,
                     !.obs_error = "log_pipeline_run",
                     !.db_failed = TRUE,
                     !.hist = Append(flow.hist, Event("start", "log_pipeline_run"))]
             /\ UNCHANGED pipeline_run_log
    /\ UNCHANGED <<wh, schema, pipeline_ml_metrics, today, ret, health>>
    /\ UNCHANGED <<concVars, runs, work, fetchVars, mlVars, cliVars>>

NextFlow ==
    \/ \E kind \in {"daily", "backfill", "main"}, with_dbt_tests, with_tests \in BOOLEAN :
          StartFlow(kind, with_dbt_tests, with_tests)
    \/ TaskSucceeds
    \/ TaskFails
    \/ FlowComputeStats
    \/ FlowLogRun

SpecFlow == Init /\ [][NextFlow]_vars

(***************************************************************************)
(* fetch_daily_weather.py                                                  *)
(***************************************************************************)
YearOf(d) == d \div YearLen
Jan1(year) == year * YearLen
Dec31(year) == year * YearLen + YearLen - 1
Max2(a, b) == IF a >= b THEN a ELSE b
Min2(a, b) == IF a <= b THEN a ELSE b

\* list(range(start_date.year, end_date.year + 1))
year_range(start_date, end_date) ==
    [i \in 1..Max2(0, YearOf(end_date) - YearOf(start_date) + 1) |->
        YearOf(start_date) + i - 1]

\* clamp_year_window: (max(year_start, start_date), min(year_end, end_date))
clamp_year_window_whole_year(start_date, end_date, year) ==
    [start |-> Jan1(year), end |-> Dec31(year)]
clamp_year_window(start_date, end_date, year) ==
    [start |-> Max2(Jan1(year), start_date), end |-> Min2(Dec31(year), end_date)]

\* run_backfill: the window of each year of year_range, for one city
BackfillWindows(start_date, end_date) ==
    LET years == year_range(start_date, end_date) IN
    [i \in 1..Len(years) |-> clamp_year_window(start_date, end_date, years[i])]

\* validate_daily_response: the record count, or a ValueError
validate_daily_response_lax(data, daily_vars) ==
    IF /\ data.daily = "dict"
       /\ data.time \notin {Missing, NotList, 0}
       /\ \A v \in daily_vars : data.series[v] \notin {Missing, NotList}
    THEN [raised |-> FALSE, n |-> data.time]
    ELSE [raised |-> TRUE, n |-> 0]
validate_daily_response(data, daily_vars) ==
    IF /\ data.daily = "dict"
       /\ data.time \notin {Missing, NotList, 0}
       /\ \A v \in daily_vars :
            /\ data.series[v] \notin {Missing, NotList}
            /\ data.series[v] = data.time
    THEN [raised |-> FALSE, n |-> data.time]
    ELSE [raised |-> TRUE, n |-> 0]

\* entering fetch_daily_with_retries: attempt = 1; `while attempt <= max_retries`
FetchCall(max_retries) ==
    [NoFetch EXCEPT !.pc = IF 1 <= max_retries THEN "running" ELSE "returned",
                    !.attempt = 1, !.max_retries = max_retries]

\* what the except branch does after failed attempt `attempt`
GiveUp_early(attempt, max_retries) == attempt + 1 >= max_retries
GiveUp(attempt, max_retries) == attempt = max_retries

\* 2 ** n
RECURSIVE Pow2(_)
Pow2(n) == IF n <= 0 THEN 1 ELSE 2 * Pow2(n - 1)

\* sleep_s = base_delay * (2 ** (attempt - 1)), in units of base_delay
sleep_s_from_attempt(attempt) == Pow2(attempt)
sleep_s(attempt) == Pow2(attempt - 1)

\* one iteration of the retry loop; resp is what the client call does
FetchAttempt(resp) ==
    /\ ing.pc = "fetch"
    /\ fetch.pc = "running"
    /\ LET v == IF resp = ClientError THEN [raised |-> TRUE, n |-> 0]
                ELSE validate_daily_response(resp, DailyVars)
           called == [fetch EXCEPT !.calls = @ + 1, !.oks = Append(@, ~v.raised)]
       IN fetch' =
            IF ~v.raised
            THEN [called EXCEPT !.pc = "returned", !.data = <<resp>>, !.n_records = v.n]
            ELSE IF GiveUp(fetch.attempt, fetch.max_retries)
            THEN [called EXCEPT !.pc = "returned", !.data = <<>>, !.n_records = 0]
            ELSE [called EXCEPT !.sleeps = Append(@, sleep_s(fetch.attempt)),
                                !.attempt = @ + 1]
    /\ UNCHANGED <<cliVars, mlVars, obsVars, concVars, flowVars, files, local_today, ing>>

CityIndex(name) == CHOOSE i \in 1..Len(CityList) : CityList[i] = name

\* the (city, year) of iteration `pos` of the nested loops
WindowAt(g, pos) ==
    IF g.mode = "backfill"
    THEN LET years == year_range(g.start_date, g.end_date) IN
         [city |-> CityList[((pos - 1) \div Len(years)) + 1],
          year |-> years[((pos - 1) % Len(years)) + 1]]
    ELSE [city |-> CityList[pos], year |-> YearOf(g.start_date)]

NumWindows(g) ==
    IF g.mode = "backfill"
    THEN Len(CityList) * Len(year_range(g.start_date, g.end_date))
    ELSE Len(CityList)

\* main() --mode backfill: run_backfill up to the loops
StartBackfill(start_date, end_date, max_retries) ==
    /\ ing.pc = "idle"
    /\ ing' = [IdleIngestion EXCEPT !.mode = "backfill", !.pc = "loop", !.pos = 1,
                                    !.start_date = start_date, !.end_date = end_date,
                                    !.max_retries = max_retries]
    /\ fetch' = NoFetch
    /\ UNCHANGED <<cliVars, mlVars, obsVars, concVars, flowVars, files, local_today>>

\* run_recent: `if end_date < year_start`, the early return
NothingToFetch_inclusive(end_date, year_start) == end_date <= year_start
NothingToFetch(end_date, year_start) == end_date < year_start

\* main() --mode recent: run_recent up to the loop, or its early return
StartRecent(max_retries) ==
    /\ ing.pc = "idle"
    /\ LET end_date == local_today - 1
           year_start == Jan1(YearOf(local_today))
       IN ing' = [IdleIngestion EXCEPT
                     !.mode = "recent",
                     !.pc = IF NothingToFetch(end_date, year_start)
                            THEN "return" ELSE "loop",
                     !.pos = IF NothingToFetch(end_date, year_start)
                             THEN Len(CityList) + 1 ELSE 1,
                     !.start_date = year_start, !.end_date = end_date,
                     !.max_retries = max_retries]
    /\ fetch' = NoFetch
    /\ UNCHANGED <<cliVars, mlVars, obsVars, concVars, flowVars, files, local_today>>

\* run_backfill: the two `continue`s before a request (window outside the
\* global range, or out_path.exists())
SkipWindow_no_exists(fs, w, win) == win.start > win.end
SkipWindow(fs, w, win) == win.start > win.end \/ fs[w.city, w.year] # <<>>

\* run_backfill: one iteration of `for year in years` up to the fetch call
BackfillWindow ==
    /\ ing.mode = "backfill"
    /\ ing.pc = "loop"
    /\ ing.pos <= NumWindows(ing)
    /\ LET w == WindowAt(ing, ing.pos)
           win == clamp_year_window(ing.start_date, ing.end_date, w.year)
       IN IF SkipWindow(files, w, win)
          THEN /\ ing' = [ing EXCEPT !.pos = @ + 1, !.skipped = Append(@, w)]
               /\ UNCHANGED fetch
          ELSE /\ ing' = [ing EXCEPT !.pc = "fetch",
                                     !.total_requests = @ + 1,
                                     !.requested = Append(@, w)]
               /\ fetch' = FetchCall(ing.max_retries)
    /\ UNCHANGED <<cliVars, mlVars, obsVars, concVars, flowVars, files, local_today>>

\* run_recent: one iteration of `for city in cities` up to the fetch call
RecentWindow ==
    /\ ing.mode = "recent"
    /\ ing.pc = "loop"
    /\ ing.pos <= NumWindows(ing)
    /\ ing' = [ing EXCEPT !.pc = "fetch",
                          !.total_requests = @ + 1,
                          !.requested = Append(@, WindowAt(ing, ing.pos))]
    /\ fetch' = FetchCall(ing.max_retries)
    /\ UNCHANGED <<cliVars, mlVars, obsVars, concVars, flowVars, files, local_today>>

\* where the loop goes after a window whose fetch returned (None, 0)
AfterFailure_abort(g) == NumWindows(g) + 1
AfterFailure(g) == g.pos + 1

\* the landing zone after the iteration for window w: `if data is None: continue`,
\* else open(out_path, "w") and json.dump(data, f)
LandedFiles_truncate(fs, w, data) == [fs EXCEPT ![w.city, w.year] = data]
LandedFiles(fs, w, data) ==
    IF data = <<>> THEN fs ELSE [fs EXCEPT ![w.city, w.year] = data]

\* run_backfill / run_recent: the rest of the iteration, after the fetch returned
AfterFetch ==
    /\ ing.pc = "fetch"
    /\ fetch.pc = "returned"
    /\ LET w == WindowAt(ing, ing.pos) IN
       /\ files' = LandedFiles(files, w, fetch.data)
       /\ IF fetch.data = <<>>
          THEN ing' = [ing EXCEPT !.pc = "loop", !.pos = AfterFailure(ing),
                                  !.failures = @ + 1,
                                  !.failed_cities = @ \cup {w.city},
                                  !.outcomes = Append(@, FALSE)]
          ELSE ing' = [ing EXCEPT !.pc = "loop", !.pos = @ + 1,
                                  !.successes = @ + 1,
                                  !.outcomes = Append(@, TRUE)]
    /\ UNCHANGED <<cliVars, mlVars, obsVars, concVars, flowVars, local_today, fetch>>

\* the city names in the order Python compares strings
Alphabetical == <<"Lisbon", "San Diego">>
NameLess(a, b) ==
    \E i, j \in 1..Len(Alphabetical) :
        i < j /\ Alphabetical[i] = a /\ Alphabetical[j] = b

\* sorted(failed_cities)
sorted_reversed(names) ==
    CHOOSE s \in [1..Cardinality(names) -> names] :
        \A i, j \in 1..Cardinality(names) : i < j => NameLess(s[j], s[i])
sorted(names) ==
    CHOOSE s \in [1..Cardinality(names) -> names] :
        \A i, j \in 1..Cardinality(names) : i < j => NameLess(s[i], s[j])

\* the IngestionSummary run_backfill / run_recent return
IngestionSummary(g) ==
    [mode |-> g.mode,
     total_cities |-> Len(CityList),
     total_requests |-> g.total_requests,
     successes |-> g.successes,
     failures |-> g.failures,
     failed_cities |-> sorted(g.failed_cities)]

\* main() after the summary: sys.exit(1) when total_requests == 0 or
\* successes == 0, else the normal exit (0)
ExitCode_any_failure(g) == IF g.failures > 0 THEN 1 ELSE 0
ExitCode(g) == IF g.total_requests = 0 \/ g.successes = 0 THEN 1 ELSE 0

\* the loops are over: the IngestionSummary is returned to main(), which logs
\* and prints it and decides the exit code
IngestionReturn ==
    /\ ing.pc \in {"loop", "return"}
    /\ ing.pos > NumWindows(ing)
    /\ ing' = [ing EXCEPT !.pc = "done", !.exit_code = <<ExitCode(ing)>>,
                          !.summary = <<IngestionSummary(ing)>>]
    /\ fetch' = NoFetch
    /\ UNCHANGED <<cliVars, mlVars, obsVars, concVars, flowVars, files, local_today>>

\* the fetch-daily-weather process ends
ProcessExit ==
    /\ ing.pc = "done"
    /\ ing' = IdleIngestion
    /\ UNCHANGED <<cliVars, mlVars, obsVars, concVars, flowVars, files, local_today, fetch>>

\* the local date advances within the current year
DayPasses ==
    /\ ing.pc = "idle"
    /\ local_today < Dec31(CurrentYear)
    /\ local_today' = local_today + 1
    /\ UNCHANGED <<cliVars, mlVars, obsVars, concVars, flowVars, files, ing, fetch>>

NextFetch ==
    \/ \E start_date, end_date \in WindowDates, max_retries \in 0..MaxRetries :
          StartBackfill(start_date, end_date, max_retries)
    \/ \E max_retries \in 0..MaxRetries : StartRecent(max_retries)
    \/ BackfillWindow
    \/ RecentWindow
    \/ \E resp \in Responses : FetchAttempt(resp)
    \/ AfterFetch
    \/ IngestionReturn
    \/ ProcessExit
    \/ DayPasses

SpecFetch == Init /\ [][NextFetch]_vars

(***************************************************************************)
(* fetch-daily-weather --mode backfill run again with the same arguments    *)
(***************************************************************************)
\* main() --mode backfill invoked again, right after an invocation with the same
\* cities, dates and settings printed its summary; prev keeps that summary
RerunBackfill ==
    /\ ing.pc = "done"
    /\ ing.mode = "backfill"
    /\ ing' = [IdleIngestion EXCEPT
                  !.mode = "backfill", !.pc = "loop", !.pos = 1,
                  !.start_date = ing.start_date, !.end_date = ing.end_date,
                  !.max_retries = ing.max_retries,
                  !.prev = <<[total_requests |-> ing.total_requests,
                              successes |-> ing.successes,
                              failures |-> ing.failures]>>]
    /\ fetch' = NoFetch
    /\ UNCHANGED <<cliVars, mlVars, obsVars, concVars, flowVars, files, local_today>>

NextRerun ==
    \/ \E start_date, end_date \in WindowDates, max_retries \in 0..MaxRetries :
          StartBackfill(start_date, end_date, max_retries)
    \/ BackfillWindow
    \/ \E resp \in Responses : FetchAttempt(resp)
    \/ AfterFetch
    \/ IngestionReturn
    \/ RerunBackfill
    \/ ProcessExit

SpecRerun == Init /\ [][NextRerun]_vars

(***************************************************************************)
(* validate_daily_response over every shape of response body               *)
(***************************************************************************)
InitValidate ==
    /\ InitConc
    /\ InitFlow
    /\ wh = NoTables
    /\ schema = FALSE
    /\ pipeline_run_log = <<>>
    /\ pipeline_ml_metrics = <<>>
    /\ today = MaxDay
    /\ ret = Returned("init", <<>>)
    /\ health = <<>>
    /\ files = [c \in Cities, y \in Years |-> <<>>]
    /\ local_today = CurrentYear * YearLen
    /\ ing = IdleIngestion
    /\ \E data \in AllPayloads :
          fetch = [NoFetch EXCEPT !.pc = "validate", !.data = <<data>>]

\* n_records = validate_daily_response(data, daily_vars, ...): returns or raises
ValidateDailyResponse ==
    /\ fetch.pc = "validate"
    /\ LET v == validate_daily_response(fetch.data[1], DailyVars) IN
       fetch' = [fetch EXCEPT !.pc = IF v.raised THEN "invalid" ELSE "validated",
                              !.n_records = v.n]
    /\ UNCHANGED <<cliVars, mlVars, obsVars, concVars, flowVars, files, local_today, ing>>

NextValidate == ValidateDailyResponse

SpecValidate == InitValidate /\ [][NextValidate]_vars

(***************************************************************************)
(* ml/train.py: prepare_data                                               *)
(***************************************************************************)
\* gold_ml_features rows: one per (city_id, year, month); `complete` says that
\* no feature column of the row is NaN
FeatureKeys ==
    {[city_id |-> c, year |-> t[1], month |-> t[2]] :
        c \in {1, 2}, t \in {<<0, 2>>, <<1, 1>>, <<1, 2>>}}
FeatureRows ==
    {[city_id |-> k.city_id, year |-> k.year, month |-> k.month, complete |-> b] :
        k \in FeatureKeys, b \in BOOLEAN}
KeyOf(r) == [city_id |-> r.city_id, year |-> r.year, month |-> r.month]
\* dataframes of at most MaxRows rows, in any row order
FeatureTables ==
    {df \in UNION {[1..n -> FeatureRows] : n \in 0..MaxRows} :
        \A i, j \in 1..Len(df) : i # j => KeyOf(df[i]) # KeyOf(df[j])}
\* --train-fraction values, as <<numerator, denominator>>
TrainFractions == {<<k, 4>> : k \in 0..5}

\* df.dropna(subset=feature_cols)
IsComplete(r) == r.complete
dropna(df) == SelectSeq(df, IsComplete)

\* sort_values(["city_id", "year", "month"]): the order of two rows
KeyLess(a, b) ==
    \/ a.city_id < b.city_id
    \/ a.city_id = b.city_id /\ a.year < b.year
    \/ a.city_id = b.city_id /\ a.year = b.year /\ a.month < b.month
sort_values_unsorted(df) == df
sort_values(df) == SortSeq(df, KeyLess)

\* int(len(df_clean) * train_fraction)
Cutoff_ceil(n, train_fraction) ==
    (n * train_fraction[1] + train_fraction[2] - 1) \div train_fraction[2]
Cutoff(n, train_fraction) == (n * train_fraction[1]) \div train_fraction[2]

MLRaise(exc) == [raised |-> exc, train |-> <<>>, test |-> <<>>, df_clean |-> <<>>]

\* prepare_data: the partitions (X and y are sliced alike) and df_clean, or the
\* exception raised
prepare_data(df, columns_ok, train_fraction) ==
    IF ~columns_ok THEN MLRaise("KeyError")
    ELSE LET df_clean == sort_values(dropna(df))
             cutoff == Cutoff(Len(df_clean), train_fraction)
         IN IF ~(0 < train_fraction[1] /\ train_fraction[1] < train_fraction[2])
            THEN MLRaise("ValueError")
            ELSE IF cutoff = 0 \/ cutoff = Len(df_clean)
            THEN MLRaise("ValueError")
            ELSE [raised |-> "none",
                  train |-> SubSeq(df_clean, 1, cutoff),
                  test |-> SubSeq(df_clean, cutoff + 1, Len(df_clean)),
                  df_clean |-> df_clean]

InitSplit ==
    /\ InitConc
    /\ InitFetch
    /\ flow = IdleFlow
    /\ runs = 0
    /\ work = [landing |-> 0, model |-> 0]
    /\ wh = NoTables
    /\ schema = FALSE
    /\ pipeline_run_log = <<>>
    /\ pipeline_ml_metrics = <<>>
    /\ today = MaxDay
    /\ ret = Returned("init", <<>>)
    /\ health = <<>>
    /\ \E df \in FeatureTables, columns_ok \in BOOLEAN, train_fraction \in TrainFractions :
          ml = [IdleML EXCEPT !.pc = "call", !.df = df, !.columns_ok = columns_ok,
                              !.train_fraction = train_fraction]
    /\ train = [proc |-> IdleTrain, files |-> NoTrainFiles, tables |-> NoMetricsTables]
    /\ predict = IdlePredict
    /\ check = IdleCheck
    /\ client = IdleClient

\* train.main: X_train, X_test, y_train, y_test, df_clean = prepare_data(...)
PrepareData ==
    /\ ml.pc = "call"
    /\ LET r == prepare_data(ml.df, ml.columns_ok, ml.train_fraction) IN
       ml' = [ml EXCEPT !.pc = IF r.raised = "none" THEN "returned" ELSE "raised",
                        !.result = <<r>>]
    /\ UNCHANGED <<cliVars, obsVars, concVars, flowVars, fetchVars, train, predict>>

NextSplit == PrepareData

SpecSplit == InitSplit /\ [][NextSplit]_vars

(***************************************************************************)
(* ml/train.py: evaluate_model and main                                    *)
(***************************************************************************)
\* A metric value is "finite" (a computed number), "zero_division" (the 0.0
\* that classification_report(zero_division=0) puts in place of an undefined
\* ratio) or "nan" (float("nan")); a metric that is left out is not in the
\* DOMAIN of the dict.

\* evaluate_model: the metrics dict, given the classes present in y_test, the
\* classes present in y_pred and whether predict_proba(X_test)[:, 1] exists
evaluate_model(test_classes, pred_classes, has_proba) ==
    LET labels == test_classes \cup pred_classes
        present == {"accuracy"}
            \cup (IF 0 \in labels THEN {"precision_0", "recall_0", "f1_0"} ELSE {})
            \cup (IF 1 \in labels THEN {"precision_1", "recall_1", "f1_1"} ELSE {})
            \cup (IF has_proba /\ Cardinality(test_classes) = 2 THEN {"roc_auc"} ELSE {})
        value(name) ==
            CASE name = "precision_0" -> IF 0 \in pred_classes THEN "finite" ELSE "zero_division"
              [] name = "precision_1" -> IF 1 \in pred_classes THEN "finite" ELSE "zero_division"
              [] name = "recall_0" -> IF 0 \in test_classes THEN "finite" ELSE "zero_division"
              [] name = "recall_1" -> IF 1 \in test_classes THEN "finite" ELSE "zero_division"
              [] OTHER -> "finite"
    IN [name \in present |-> value(name)]

\* metrics.get(name, float("nan"))
MetricOrDefault(metrics, name) == IF name \in DOMAIN metrics THEN metrics[name] ELSE "nan"

\* the MLMetricRecord main() builds from the metrics dict
TrainRecord(metrics, run_id) ==
    MLMetricRecord(run_id) @@
    [positive_class_ratio |-> "finite",
     values |-> [name \in MetricNames |-> MetricOrDefault(metrics, name)]]

\* climate-train-baseline --db-path db_path starts: load_ml_table connects
TrainStart(db_path, test_classes, pred_classes, has_proba) ==
    /\ train.proc.pc = "idle"
    /\ Len(train.tables["run_logger_default"]) < MaxLog
    /\ train' = [train EXCEPT !.proc =
            [IdleTrain EXCEPT !.pc = "load_ml_table", !.db_path = db_path,
                              !.test_classes = test_classes,
                              !.pred_classes = pred_classes,
                              !.has_proba = has_proba, !.conns = 1]]
    /\ UNCHANGED <<cliVars, obsVars, concVars, flowVars, fetchVars, ml, predict>>

\* load_ml_table: the SELECT, `finally: con.close()`, the empty-table check;
\* then prepare_data, train_random_forest and evaluate_model. Any of them may
\* raise, which ends main() with the exception.
TrainEvaluate ==
    /\ train.proc.pc = "load_ml_table"
    /\ \E ok \in BOOLEAN :
         train' = [train EXCEPT
            !.proc.conns = 0,
            !.proc.pc = IF ok THEN "evaluated" ELSE "raised",
            !.proc.metrics =
                IF ok THEN <<evaluate_model(train.proc.test_classes,
                                            train.proc.pred_classes,
                                            train.proc.has_proba)>>
                ELSE <<>>]
    /\ UNCHANGED <<cliVars, obsVars, concVars, flowVars, fetchVars, ml, predict>>

\* joblib.dump(model, args.model_path)
SaveModel ==
    /\ train.proc.pc = "evaluated"
    /\ train' = [train EXCEPT !.proc.pc = "model_saved", !.files.model_file = TRUE,
                              !.proc.hist = Append(@, "model")]
    /\ UNCHANGED <<cliVars, obsVars, concVars, flowVars, fetchVars, ml, predict>>

\* args.metrics_path.write_text(json.dumps(metrics, indent=2))
SaveMetrics ==
    /\ train.proc.pc = "model_saved"
    /\ train' = [train EXCEPT !.proc.pc = "metrics_saved",
                              !.files.metrics_file = train.proc.metrics,
                              !.proc.hist = Append(@, "metrics")]
    /\ UNCHANGED <<cliVars, obsVars, concVars, flowVars, fetchVars, ml, predict>>

\* run_logger._get_warehouse_path: the argument when one is given (<<p>>),
\* else the module constant WAREHOUSE_PATH
_get_warehouse_path(warehouse_path) ==
    IF warehouse_path # <<>> THEN warehouse_path[1] ELSE "run_logger_default"

\* where main()'s `except Exception` leaves the process after a failure in the
\* metrics-logging block
TrainLogErrorOutcome_raise == "raised"
TrainLogErrorOutcome == "returned"

\* main(), inside the try: the MLMetricRecord is built (int(PIPELINE_RUN_ID)
\* may raise), then log_ml_metrics(record) connects to its warehouse
BuildRecord ==
    /\ train.proc.pc = "metrics_saved"
    /\ \E run_id \in {0, 1}, ok \in BOOLEAN :
         train' = [train EXCEPT
            !.proc.pc = IF ok THEN "log_ml_metrics" ELSE TrainLogErrorOutcome,
            !.proc.record = IF ok THEN <<TrainRecord(train.proc.metrics[1], run_id)>>
                            ELSE <<>>,
            !.proc.log_error = IF ok THEN "none" ELSE "record",
            !.proc.conns = IF ok THEN 1 ELSE 0,
            !.proc.hist = Append(@, "record")]
    /\ UNCHANGED <<cliVars, obsVars, concVars, flowVars, fetchVars, ml, predict>>

\* log_ml_metrics(record): _ensure_schema, next id, INSERT (or an exception),
\* `finally: conn.close()`; main() prints the outcome and returns
InsertMetrics ==
    /\ train.proc.pc = "log_ml_metrics"
    /\ \E ok \in BOOLEAN :
         LET path == _get_warehouse_path(<<>>)
             table == train.tables[path]
         IN train' =
              IF ok
              THEN [train EXCEPT
                      !.tables[path] =
                          Append(table, train.proc.record[1] @@ [id |-> ml_next_id(table)]),
                      !.proc.pc = "returned",
                      !.proc.conns = 0,
                      !.proc.hist = Append(@, "log_ml_metrics")]
              ELSE [train EXCEPT
                      !.proc.pc = TrainLogErrorOutcome,
                      !.proc.log_error = "insert",
                      !.proc.conns = 0,
                      !.proc.hist = Append(@, "log_ml_metrics")]
    /\ UNCHANGED <<cliVars, obsVars, concVars, flowVars, fetchVars, ml, predict>>

\* the process has ended (main returned or raised); the files and tables stay
TrainExit ==
    /\ train.proc.pc \in {"returned", "raised"}
    /\ train' = [train EXCEPT !.proc = IdleTrain]
    /\ UNCHANGED <<cliVars, obsVars, concVars, flowVars, fetchVars, ml, predict>>

NextTrain ==
    \/ \E db_path \in Paths, test_classes, pred_classes \in (SUBSET Classes) \ {{}},
          has_proba \in BOOLEAN :
          TrainStart(db_path, test_classes, pred_classes, has_proba)
    \/ TrainEvaluate
    \/ SaveModel
    \/ SaveMetrics
    \/ BuildRecord
    \/ InsertMetrics
    \/ TrainExit

SpecTrain == Init /\ [][NextTrain]_vars

(***************************************************************************)
(* ml/predict.py: load_features and main                                   *)
(***************************************************************************)
\* the feature tables inference reads: rows of one city and year, any order
ScoredTables ==
    {df \in UNION {[1..n -> {r \in FeatureRows : r.city_id = 1 /\ r.year = 1}] :
                       n \in 0..MaxScored} :
        \A i, j \in 1..Len(df) : i # j => KeyOf(df[i]) # KeyOf(df[j])}
\* the model file at --model-path: absent, or one of two fitted models
ModelFiles == {"none", "m1", "m2"}

\* load_features: df.dropna(subset=FEATURE_COLS)
load_features(df) == dropna(df)

\* df_pred: for each row of df_clean its identifier columns and the
\* prediction and probability the model gives for its features
PredictionsOf(df_clean, model) ==
    [i \in 1..Len(df_clean) |-> KeyOf(df_clean[i]) @@ [scored_by |-> model]]

\* CREATE OR REPLACE TABLE output_table AS SELECT * FROM preds_df
write_table_append(table, df_pred) ==
    <<(IF table = <<>> THEN <<>> ELSE table[1]) \o df_pred>>
write_table(table, df_pred) == <<df_pred>>

\* climate-predict-baseline starts: db_path.exists() or FileNotFoundError,
\* then con = duckdb.connect(db_path)
PredictStart(df, columns_ok, model, db_exists) ==
    /\ predict.pc = "idle"
    /\ predict.runs < MaxRuns
    /\ predict' = [predict EXCEPT
            !.pc = IF db_exists THEN "connected" ELSE "raised",
            !.conns = IF db_exists THEN 1 ELSE 0,
            !.df = df, !.columns_ok = columns_ok, !.model = model,
            !.df_pred = <<>>,
            !.before = predict.table,
            !.runs = @ + 1]
    /\ UNCHANGED <<cliVars, obsVars, concVars, flowVars, fetchVars, ml, train>>

\* main: SELECT * FROM table_name, the empty check, load_features, load_model,
\* predict_probabilities, df_pred. None of the raises is inside a try, so the
\* connection stays as it is. Scoring zero rows raises or gives zero
\* predictions, as the loaded model decides.
PredictScore ==
    /\ predict.pc = "connected"
    /\ \E select_ok \in BOOLEAN, empty_ok \in BOOLEAN :
         LET df_clean == load_features(predict.df)
             ok == /\ select_ok
                   /\ predict.df # <<>>
                   /\ predict.columns_ok
                   /\ predict.model # "none"
                   /\ (df_clean # <<>> \/ empty_ok)
         IN predict' = [predict EXCEPT
                !.pc = IF ok THEN "scored" ELSE "raised",
                !.df_pred = IF ok THEN PredictionsOf(df_clean, predict.model) ELSE <<>>]
    /\ UNCHANGED <<cliVars, obsVars, concVars, flowVars, fetchVars, ml, train>>

\* con.register, CREATE OR REPLACE TABLE, con.unregister, con.close()
PredictWrite ==
    /\ predict.pc = "scored"
    /\ \E ok \in BOOLEAN :
         predict' =
            IF ok
            THEN [predict EXCEPT !.pc = "written", !.conns = 0,
                                 !.table = write_table(predict.table, predict.df_pred)]
            ELSE [predict EXCEPT !.pc = "raised"]
    /\ UNCHANGED <<cliVars, obsVars, concVars, flowVars, fetchVars, ml, train>>

\* df_pred.to_csv(args.output_csv, index=False); main returns
PredictCsv ==
    /\ predict.pc = "written"
    /\ predict' = [predict EXCEPT !.pc = "returned", !.csv = <<predict.df_pred>>]
    /\ UNCHANGED <<cliVars, obsVars, concVars, flowVars, fetchVars, ml, train>>

\* the process has ended; the table and the CSV stay
PredictExit ==
    /\ predict.pc \in {"returned", "raised"}
    /\ predict' = [predict EXCEPT
            !.pc = "idle", !.conns = 0,
            !.last_input = IF predict.pc = "returned"
                           THEN <<[df |-> predict.df, model |-> predict.model]>>
                           ELSE @]
    /\ UNCHANGED <<cliVars, obsVars, concVars, flowVars, fetchVars, ml, train>>

NextPredict ==
    \/ \E df \in ScoredTables, columns_ok \in BOOLEAN, model \in ModelFiles,
          db_exists \in BOOLEAN :
          PredictStart(df, columns_ok, model, db_exists)
    \/ PredictScore
    \/ PredictWrite
    \/ PredictCsv
    \/ PredictExit

SpecPredict == Init /\ [][NextPredict]_vars

(***************************************************************************)
(* utils/open_meteo_client.py: fetch_daily_history, as called by           *)
(* fetch_daily_with_retries                                                *)
(***************************************************************************)
\* what one requests.get / raise_for_status / resp.json() does: a body, an
\* HTTPError with status 429, an HTTPError with another status, or another
\* exception (timeout, connection error, invalid JSON)
HttpOutcomes == {"ok", "429", "http_error", "exception"}

\* except HTTPError: `if status == 429 and attempt <= max_retries`
RetryRequest_any_http_error(outcome, attempt, max_retries) ==
    outcome \in {"429", "http_error"} /\ attempt <= max_retries
RetryRequest(outcome, attempt, max_retries) ==
    outcome = "429" /\ attempt <= max_retries

\* sleep_for = backoff_seconds * (2 ** (attempt - 1)), in units of backoff_seconds
sleep_for(attempt) == Pow2(attempt - 1)

\* run_backfill / run_recent call fetch_daily_with_retries for one (city, window)
CallWithRetries(max_retries, client_max_retries) ==
    /\ ing.pc = "idle"
    /\ ing' = [IdleIngestion EXCEPT !.pc = "fetch", !.max_retries = max_retries]
    /\ fetch' = FetchCall(max_retries)
    /\ client' = [IdleClient EXCEPT !.max_retries = client_max_retries]
    /\ UNCHANGED <<mlVars, obsVars, concVars, flowVars, files, local_today, check>>

\* fetch_daily_with_retries, inside the try: client.fetch_daily_history(...);
\* attempt = 0
ClientCall ==
    /\ ing.pc = "fetch"
    /\ fetch.pc = "running"
    /\ client.pc # "running"
    /\ client.calls = fetch.calls
    /\ client' = [client EXCEPT !.pc = "running", !.attempt = 0, !.calls = @ + 1,
                                !.responses = <<>>, !.sleeps = <<>>]
    /\ UNCHANGED <<mlVars, obsVars, concVars, flowVars, fetchVars, check>>

\* one iteration of `while True`: attempt += 1, the request, then return data,
\* sleep and continue, or raise
ClientRequest(outcome) ==
    /\ client.pc = "running"
    /\ LET attempt == client.attempt + 1
           sent == [client EXCEPT !.attempt = attempt, !.requests = @ + 1,
                                  !.responses = Append(@, outcome)]
       IN client' =
            IF outcome = "ok" THEN [sent EXCEPT !.pc = "returned"]
            ELSE IF RetryRequest(outcome, attempt, client.max_retries)
            THEN [sent EXCEPT !.sleeps = Append(@, sleep_for(attempt))]
            ELSE [sent EXCEPT !.pc = "raised"]
    /\ UNCHANGED <<mlVars, obsVars, concVars, flowVars, fetchVars, check>>

\* the rest of the iteration of fetch_daily_with_retries once the client call
\* is over: validation of the body it returned, or the except branch
FetchAfterClient ==
    /\ client.pc \in {"returned", "raised"}
    /\ client.calls = fetch.calls + 1
    /\ \E resp \in Responses :
         /\ (resp = ClientError) <=> (client.pc = "raised")
         /\ FetchAttempt(resp)

\* fetch_daily_with_retries has returned to the loop of run_backfill / run_recent
WithRetriesReturn ==
    /\ ing.pc = "fetch"
    /\ ing.mode = "idle"
    /\ fetch.pc = "returned"
    /\ ing' = IdleIngestion
    /\ fetch' = NoFetch
    /\ client' = IdleClient
    /\ UNCHANGED <<mlVars, obsVars, concVars, flowVars, files, local_today, check>>

NextClient ==
    \/ \E max_retries \in 0..MaxOuterRetries, client_max_retries \in 0..MaxClientRetries :
          CallWithRetries(max_retries, client_max_retries)
    \/ ClientCall
    \/ \E outcome \in HttpOutcomes : ClientRequest(outcome)
    \/ FetchAfterClient
    \/ WithRetriesReturn

SpecClient == Init /\ [][NextClient]_vars

(***************************************************************************)
(* cli/health.py: check_ingestion_main                                     *)
(***************************************************************************)
\* last_date per row of the summary (one row per city_id of
\* bronze_daily_weather): a date, or NoDate when every date of the city is NULL
LastDates == Dates \cup {NoDate}
IngestionSummaries == UNION {[1..n -> LastDates] : n \in 0..Len(CityList)}

\* df["freshness_status"].value_counts().get(status, 0)
value_count(df, status, now) ==
    Cardinality({i \in 1..Len(df) : _classify_freshness(df[i], now) = status})

\* check_ingestion_main: the code it passes to SystemExit
check_ingestion_exit_stale_first(db_exists, query_ok, df, now) ==
    IF ~db_exists \/ ~query_ok THEN 3
    ELSE IF df = <<>> THEN 3
    ELSE IF value_count(df, "stale", now) > 0 THEN 1
    ELSE IF value_count(df, "very_stale", now) > 0 THEN 2
    ELSE IF value_count(df, "unknown", now) > 0 THEN 1
    ELSE 0
check_ingestion_exit(db_exists, query_ok, df, now) ==
    IF ~db_exists \/ ~query_ok THEN 3
    ELSE IF df = <<>> THEN 3
    ELSE IF value_count(df, "very_stale", now) > 0 THEN 2
    ELSE IF value_count(df, "stale", now) > 0 THEN 1
    ELSE IF value_count(df, "unknown", now) > 0 THEN 1
    ELSE 0

\* climate-check-ingestion runs against a warehouse file that exists or not,
\* whose summary query succeeds or not and returns df
CheckIngestion(db_exists, query_ok, df) ==
    /\ check.pc = "idle"
    /\ check' = [pc |-> "exited", db_exists |-> db_exists, query_ok |-> query_ok,
                 df |-> df,
                 exit_code |-> <<check_ingestion_exit(db_exists, query_ok, df, today)>>]
    /\ UNCHANGED <<obsVars, concVars, flowVars, fetchVars, mlVars, client>>

\* the process is gone
CheckExit ==
    /\ check.pc = "exited"
    /\ check' = IdleCheck
    /\ UNCHANGED <<obsVars, concVars, flowVars, fetchVars, mlVars, client>>

NextCheck ==
    \/ \E db_exists, query_ok \in BOOLEAN, df \in IngestionSummaries :
          CheckIngestion(db_exists, query_ok, df)
    \/ CheckExit

SpecCheck == Init /\ [][NextCheck]_vars

(***************************************************************************)
(* Properties                                                              *)
(***************************************************************************)
StatsReturned == ret.op = "compute_run_stats" /\ ~ret.raised

\* C1: the deltas compute_run_stats returns are the current counts minus the
\* counts stored in a status = 'success' row of greatest started_at, and the
\* current counts themselves when the log holds no success row; rows of any
\* other status are never the baseline.
C1_DeltaAgainstLatestSuccess ==
    StatsReturned =>
        LET stats == ret.val[1]
            log == pipeline_run_log
            succ == {i \in 1..Len(log) : log[i].status = "success"}
        IN  /\ stats.rows_bronze = wh.rows_bronze
            /\ stats.rows_gold_ml = wh.rows_gold_ml
            /\ IF succ = {}
               THEN /\ stats.rows_bronze_delta = wh.rows_bronze
                    /\ stats.rows_gold_ml_delta = wh.rows_gold_ml
               ELSE \E i \in succ :
                    /\ \A j \in succ : log[j].started_at <= log[i].started_at
                    /\ stats.rows_bronze_delta = wh.rows_bronze - log[i].rows_bronze
                    /\ stats.rows_gold_ml_delta = wh.rows_gold_ml - log[i].rows_gold_ml

\* a failed row that is more recent and has a larger id than the only success
\* row, with other counts, and stats computed against the success row
C1_Witness ==
    /\ StatsReturned
    /\ Len(pipeline_run_log) = 2
    /\ pipeline_run_log[1].status = "success"
    /\ pipeline_run_log[2].status = "failed"
    /\ pipeline_run_log[2].started_at > pipeline_run_log[1].started_at
    /\ pipeline_run_log[2].id > pipeline_run_log[1].id
    /\ pipeline_run_log[2].rows_bronze # pipeline_run_log[1].rows_bronze
    /\ wh.rows_bronze = 4
    /\ ret.val[1].rows_bronze_delta = 4 - pipeline_run_log[1].rows_bronze

AppendOnly(old, new) ==
    /\ Len(new) \in {Len(old), Len(old) + 1}
    /\ \A k \in 1..Len(old) : new[k] = old[k]

\* C2: with one writer at a time, starting from empty tables, the k-th row
\* inserted by log_pipeline_run (log_ml_metrics) has id k, and every step
\* leaves the existing rows of both tables unchanged, adding at most one row.
C2_IdsFollowInsertionOrder ==
    /\ [](/\ \A k \in 1..Len(pipeline_run_log) : pipeline_run_log[k].id = k
          /\ \A k \in 1..Len(pipeline_ml_metrics) : pipeline_ml_metrics[k].id = k)
    /\ [][/\ AppendOnly(pipeline_run_log, pipeline_run_log')
          /\ AppendOnly(pipeline_ml_metrics, pipeline_ml_metrics')]_vars

C2_Witness ==
    /\ Len(pipeline_run_log) >= 2
    /\ Len(pipeline_ml_metrics) >= 2
    /\ pipeline_run_log[2].id = 2
    /\ pipeline_ml_metrics[2].id = 2

\* C3: a compute_run_stats call, returning or raising, leaves the rows of
\* pipeline_run_log and of pipeline_ml_metrics as they were.
C3_StatsCallLeavesLogs ==
    [][ret'.op = "compute_run_stats" =>
            /\ pipeline_run_log' = pipeline_run_log
            /\ pipeline_ml_metrics' = pipeline_ml_metrics]_vars

\* compute_run_stats raised (data tables missing) on a warehouse whose log
\* tables already hold rows
C3_Witness ==
    /\ ret.op = "compute_run_stats"
    /\ ret.raised
    /\ schema
    /\ Len(pipeline_run_log) >= 1
    /\ Len(pipeline_ml_metrics) >= 1

StatusOfLag(lag) ==
    IF lag <= 1 THEN "fresh" ELSE IF lag <= 7 THEN "stale" ELSE "very_stale"

\* C8: the freshness status is "unknown" for a missing date and otherwise the
\* status of lag = today - max date (<= 1 fresh, 2..7 stale, >= 8 very_stale),
\* and compute_run_stats and health._classify_freshness agree on every date.
C8_FreshnessIsFunctionOfLag ==
    /\ StatsReturned =>
         LET stats == ret.val[1] IN
         /\ stats.bronze_max_date = wh.bronze_max_date
         /\ stats.freshness_status =
              IF wh.bronze_max_date = NoDate THEN "unknown"
              ELSE StatusOfLag(today - wh.bronze_max_date)
    /\ health # <<>> =>
         health[1].freshness_status =
              IF health[1].max_date = NoDate THEN "unknown"
              ELSE StatusOfLag(today - health[1].max_date)
    /\ (StatsReturned /\ health # <<>>
            /\ health[1].max_date = ret.val[1].bronze_max_date) =>
         health[1].freshness_status = ret.val[1].freshness_status

\* both classifiers ran on the same date at the stale / very_stale boundary
C8_Witness ==
    /\ StatsReturned
    /\ health # <<>>
    /\ health[1].max_date = wh.bronze_max_date
    /\ wh.bronze_max_date # NoDate
    /\ today - wh.bronze_max_date = 8
    /\ ret.val[1].freshness_status = "very_stale"

\* C6: two rows of pipeline_run_log carry the same id only when the call that
\* inserted the later one read MAX(id) before the earlier one was inserted
\* (the calls overlapped); calls that do not overlap never duplicate an id.
C6_DuplicateIdsOnlyFromOverlap ==
    /\ Len(insert_view) = Len(pipeline_run_log)
    /\ \A i, j \in 1..Len(pipeline_run_log) :
          (i < j /\ pipeline_run_log[i].id = pipeline_run_log[j].id)
              => insert_view[j] < i

\* both calls read MAX(id) on the empty table, and both rows got id 1
C6_Witness ==
    /\ Len(pipeline_run_log) >= 2
    /\ pipeline_run_log[1].id = pipeline_run_log[2].id
    /\ insert_view[1] = 0
    /\ insert_view[2] = 0

FlowEnded == flow.pc \in {"completed", "failed"}

\* C4: every execution of daily_climate_flow or backfill_climate_flow that
\* found the warehouse reachable has, when it ends, appended exactly one row
\* to pipeline_run_log, whatever the outcome of its steps.
C4_EveryExecutionLogged ==
    (FlowEnded /\ flow.kind \in {"daily", "backfill"} /\ ~flow.db_failed)
        => Len(pipeline_run_log) = flow.base_len + 1

\* C5: an exception of compute_run_stats or log_pipeline_run inside
\* log_run_to_duckdb leaves the flow completed (never failed), and the logging
\* steps change nothing that ingestion, the transform or training produced.
C5_ObsFailureNeverFailsFlow ==
    /\ [](flow.obs_error # "none" => flow.pc = "completed")
    /\ [][flow.pc \in {"compute_run_stats", "log_pipeline_run"} =>
             /\ flow'.pc \in {"log_pipeline_run", "completed"}
             /\ wh' = wh
             /\ pipeline_ml_metrics' = pipeline_ml_metrics
             /\ work' = work]_vars

\* log_pipeline_run raised after stats were computed; the flow completed and
\* the run's work is in place
C5_Witness ==
    /\ flow.obs_error = "log_pipeline_run"
    /\ flow.pc = "completed"
    /\ flow.stats # <<>>
    /\ work.landing >= 1
    /\ work.model >= 1
    /\ Len(pipeline_run_log) = flow.base_len

Pos(ev, step) ==
    {p \in 1..Len(flow.hist) : flow.hist[p] = Event(ev, step)}
Precedes(ev1, step1, ev2, step2) ==
    \A q \in Pos(ev2, step2) : \E p \in Pos(ev1, step1) : p < q

\* C7: within one execution ingestion completes before the transform starts,
\* the transform completes before training starts, and compute_run_stats is
\* invoked after the transform has finished and before log_pipeline_run is
\* attempted.
C7_StepsTotallyOrdered ==
    /\ Precedes("done", "ingest", "start", "dbt_build")
    /\ Precedes("done", "dbt_build", "start", "train")
    /\ Precedes("done", "dbt_build", "start", "compute_run_stats")
    /\ Precedes("start", "compute_run_stats", "start", "log_pipeline_run")

\* a backfill flow that retried its ingestion and ran every step to the log write
C7_Witness ==
    /\ flow.kind = "backfill"
    /\ flow.pc = "completed"
    /\ Pos("start", "log_pipeline_run") # {}
    /\ Pos("done", "train") # {}
    /\ Pos("done", "dbt_tests") # {}
    /\ Len(pipeline_run_log) = flow.base_len + 1

\* C9: a fetch_daily_with_retries call with max_retries = m >= 1 returns
\* (None, 0) after exactly m client calls when every attempt failed, and after
\* exactly k client calls, with the validated payload and its record count,
\* when attempt k <= m was the first to succeed.
C9_RetriesCallCount ==
    (fetch.pc = "returned" /\ fetch.max_retries >= 1) =>
        LET oks == fetch.oks
            good == {k \in 1..Len(oks) : oks[k]}
        IN  /\ fetch.calls = Len(oks)
            /\ IF good = {}
               THEN /\ fetch.calls = fetch.max_retries
                    /\ fetch.data = <<>>
                    /\ fetch.n_records = 0
               ELSE /\ \A k \in good : fetch.calls = k
                    /\ fetch.calls <= fetch.max_retries
                    /\ fetch.data # <<>>
                    /\ fetch.data[1].daily = "dict"
                    /\ fetch.data[1].time >= 1
                    /\ \A v \in DailyVars : fetch.data[1].series[v] = fetch.data[1].time
                    /\ fetch.n_records = fetch.data[1].time

\* every one of max_retries = 2 attempts failed
C9_Witness ==
    /\ fetch.pc = "returned"
    /\ fetch.max_retries = 2
    /\ fetch.oks = <<FALSE, FALSE>>
    /\ fetch.calls = 2
    /\ fetch.data = <<>>

Count(seq, x) == Cardinality({k \in 1..Len(seq) : seq[k] = x})

\* the (city, year) windows an invocation iterates over
InvocationWindows(g) ==
    IF g.mode = "recent"
    THEN IF g.end_date < g.start_date THEN {}
         ELSE {[city |-> c, year |-> YearOf(g.start_date)] : c \in Cities}
    ELSE {[city |-> c, year |-> y] :
            c \in Cities, y \in {z \in Years : YearOf(g.start_date) <= z /\ z <= YearOf(g.end_date)}}

\* C10: a window whose retries are exhausted adds its city to failed_cities
\* and one to failures, and the run goes on: when run_backfill / run_recent
\* returns, every window of the invocation was either skipped or requested
\* exactly once, whatever the outcome of the windows before it.
C10_FailureNeverAbortsRun ==
    /\ ing.failures = Count(ing.outcomes, FALSE)
    /\ ing.failed_cities =
          {ing.requested[k].city : k \in {j \in 1..Len(ing.outcomes) : ~ing.outcomes[j]}}
    /\ ing.pc = "done" =>
          /\ Len(ing.outcomes) = Len(ing.requested)
          /\ \A w \in InvocationWindows(ing) :
                Count(ing.requested, w) + Count(ing.skipped, w) = 1
          /\ \A k \in 1..Len(ing.requested) : ing.requested[k] \in InvocationWindows(ing)
          /\ \A k \in 1..Len(ing.skipped) :
                LET w == ing.skipped[k] IN
                \/ files[w.city, w.year] # <<>>
                \/ Max2(Jan1(w.year), ing.start_date) > Min2(Dec31(w.year), ing.end_date)

\* a backfill whose first window exhausted its retries and whose next window
\* was still requested, and succeeded
C10_Witness ==
    /\ ing.pc = "done"
    /\ ing.mode = "backfill"
    /\ ing.max_retries = 2
    /\ Len(ing.requested) >= 2
    /\ ~ing.outcomes[1]
    /\ ing.outcomes[2]
    /\ ing.requested[1].city = ing.requested[2].city
    /\ ing.failures = 1
    /\ ing.failed_cities = {ing.requested[1].city}

\* the response has a 'daily' mapping, a non-empty list 'time' and, for every
\* requested variable, a list as long as 'time'
WellFormed(data, daily_vars) ==
    /\ data.daily = "dict"
    /\ data.time \in 1..MaxRecords
    /\ \A v \in daily_vars : data.series[v] \in 0..MaxRecords /\ data.series[v] = data.time

\* C11: validate_daily_response returns n = len(daily.time) exactly when the
\* payload has a 'daily' mapping with a non-empty list 'time' and a list of
\* length n for every requested variable, and raises in every other case
\* (missing key, empty or non-list time, missing, non-list or length-mismatched
\* variable), for every subset of requested variables.
C11_ValidationAcceptsExactlyAlignedPayloads ==
    fetch.pc \in {"validated", "invalid"} =>
        LET data == fetch.data[1] IN
        /\ (fetch.pc = "validated") <=> WellFormed(data, DailyVars)
        /\ fetch.pc = "validated" => fetch.n_records = data.time
        /\ \A daily_vars \in SUBSET DailyVars :
              validate_daily_response(data, daily_vars) =
                 IF WellFormed(data, daily_vars)
                 THEN [raised |-> FALSE, n |-> data.time]
                 ELSE [raised |-> TRUE, n |-> 0]

\* a response whose 'time' has 2 entries and one variable array 1 was rejected
C11_Witness ==
    /\ fetch.pc = "invalid"
    /\ fetch.data[1].daily = "dict"
    /\ fetch.data[1].time = 2
    /\ fetch.data[1].series["temperature_2m_max"] = 2
    /\ fetch.data[1].series["precipitation_sum"] = 1

\* a window's fetch_daily_with_retries call has returned (None, 0)
WindowFailed == ing.pc = "fetch" /\ fetch.pc = "returned" /\ fetch.data = <<>>

\* C12: every landing artifact holds a payload that passed
\* validate_daily_response (len(time) = len(values[v]) for every requested
\* variable v); the landing zone changes only by writing the validated payload
\* of the window just fetched; and when all attempts for a window failed no
\* file is written and the artifact already present is left unchanged.
C12_ArtifactsAreValidatedPayloads ==
    /\ [](\A c \in Cities, y \in Years :
            files[c, y] # <<>> => WellFormed(files[c, y][1], DailyVars))
    /\ [][files' # files =>
            /\ fetch.pc = "returned"
            /\ fetch.data # <<>>
            /\ ~validate_daily_response(fetch.data[1], DailyVars).raised
            /\ LET w == WindowAt(ing, ing.pos) IN
               files' = [files EXCEPT ![w.city, w.year] = fetch.data]]_vars
    /\ [][WindowFailed => files' = files]_vars

\* a recent run exhausted its retries for the first city while that city's
\* current-year artifact, written by an earlier run, is present
C12_Witness ==
    /\ ing.mode = "recent"
    /\ ing.pc = "loop"
    /\ ing.max_retries = 2
    /\ ing.outcomes = <<FALSE>>
    /\ ing.failures = 1
    /\ files[CityList[1], CurrentYear] # <<>>

RecentWindows == [i \in 1..Len(CityList) |-> [city |-> CityList[i], year |-> CurrentYear]]

C15_EmptyRecentRunIsNotAnError ==
    (ing.mode = "recent" /\ local_today - 1 < Jan1(CurrentYear)) =>
        /\ ing.total_requests = 0
        /\ ing.successes = 0
        /\ ing.failures = 0
        /\ ing.failed_cities = {}
        /\ ing.requested = <<>>
        /\ fetch = NoFetch
        /\ ing.pc = "done" => ing.exit_code = <<0>>

\* C16: the invocation exits non-zero exactly when its summary has
\* successes = 0: with successes >= 1 it exits 0 however many windows failed,
\* and with total_requests > 0 and successes = 0 it exits 1.
C16_ExitNonZeroIffNoSuccess ==
    ing.pc = "done" =>
        /\ ing.exit_code \in {<<0>>, <<1>>}
        /\ (ing.exit_code # <<0>>) <=> (ing.successes = 0)
        /\ ing.successes >= 1 => ing.exit_code = <<0>>
        /\ (ing.total_requests > 0 /\ ing.successes = 0) => ing.exit_code = <<1>>

\* one window landed, three exhausted their retries, and the exit code is 0
C16_Witness ==
    /\ ing.pc = "done"
    /\ ing.successes = 1
    /\ ing.failures = 3
    /\ ing.total_requests = 4
    /\ ing.exit_code = <<0>>

\* C17: run_backfill never overwrites an existing artifact, run_recent writes
\* only the current year's artifacts, and so no step of any sequence of
\* backfill and recent runs within the calendar year changes an existing
\* artifact of an earlier year.
C17_HistoricalArtifactsImmutable ==
    /\ [][ing.mode = "backfill" =>
            \A c \in Cities, y \in Years :
                files[c, y] # <<>> => files'[c, y] = files[c, y]]_vars
    /\ [][ing.mode = "recent" =>
            \A c \in Cities, y \in Years :
                y # CurrentYear => files'[c, y] = files[c, y]]_vars
    /\ [][\A c \in Cities, y \in Years :
            (y < CurrentYear /\ files[c, y] # <<>>) => files'[c, y] = files[c, y]]_vars

\* a backfill over both years skipped the existing artifact of the earlier
\* year and wrote the current year's
C17_Witness ==
    /\ ing.mode = "backfill"
    /\ ing.pc = "done"
    /\ ing.requested = <<[city |-> CityList[1], year |-> CurrentYear]>>
    /\ ing.outcomes = <<TRUE>>
    /\ \E k \in 1..Len(ing.skipped) :
          /\ ing.skipped[k] = [city |-> CityList[1], year |-> 0]
          /\ Max2(Jan1(0), ing.start_date) <= Min2(Dec31(0), ing.end_date)
    /\ files[CityList[1], 0] # <<>>

\* the prepare_data call has returned or raised
SplitDone == ml.pc \in {"returned", "raised"}
\* the rows of the input without a NaN feature
CompleteRows == {ml.df[i] : i \in {j \in 1..Len(ml.df) : ml.df[j].complete}}
\* floor(n * train_fraction)
FloorCutoff(n) ==
    CHOOSE c \in 0..(2 * n + 1) :
        /\ c * ml.train_fraction[2] <= n * ml.train_fraction[1]
        /\ n * ml.train_fraction[1] < (c + 1) * ml.train_fraction[2]
\* seq holds exactly the rows of S, ascending by (city_id, year, month)
IsOrderingOf(seq, S) ==
    /\ Len(seq) = Cardinality(S)
    /\ {seq[i] : i \in 1..Len(seq)} = S
    /\ \A i, j \in 1..Len(seq) : i < j => KeyLess(seq[i], seq[j])
RowsOf(seq) == {seq[i] : i \in 1..Len(seq)}

\* C18: with n the number of complete-feature rows, taken in (city_id, year,
\* month) order, and cutoff = floor(n * train_fraction), prepare_data returns
\* exactly when 0 < train_fraction < 1 and 0 < cutoff < n, the training
\* partition being rows [0, cutoff) and the test partition rows [cutoff, n) of
\* that order (disjoint, covering all n rows); in every other case it raises
\* ValueError.
C18_SplitAtFloorCutoff ==
    (SplitDone /\ ml.columns_ok) =>
        LET r == ml.result[1]
            n == Cardinality(CompleteRows)
            cutoff == FloorCutoff(n)
            valid == /\ 0 < ml.train_fraction[1]
                     /\ ml.train_fraction[1] < ml.train_fraction[2]
                     /\ 0 < cutoff
                     /\ cutoff < n
        IN  /\ (r.raised = "none") <=> valid
            /\ ~valid => (r.raised = "ValueError" /\ ml.pc = "raised")
            /\ valid =>
                  /\ ml.pc = "returned"
                  /\ IsOrderingOf(r.df_clean, CompleteRows)
                  /\ Len(r.train) = cutoff
                  /\ Len(r.test) = n - cutoff
                  /\ \A i \in 1..cutoff : r.train[i] = r.df_clean[i]
                  /\ \A i \in 1..(n - cutoff) : r.test[i] = r.df_clean[cutoff + i]
                  /\ RowsOf(r.train) \cap RowsOf(r.test) = {}
                  /\ RowsOf(r.train) \cup RowsOf(r.test) = CompleteRows

\* four complete rows handed over out of order, train_fraction = 0.75: three
\* training rows and one test row
C18_Witness ==
    /\ ml.pc = "returned"
    /\ ml.train_fraction = <<3, 4>>
    /\ Len(ml.df) = 4
    /\ Cardinality(CompleteRows) = 4
    /\ ml.df # ml.result[1].df_clean
    /\ Len(ml.result[1].train) = 3
    /\ Len(ml.result[1].test) = 1

\* the input with rows i and j exchanged; every shuffle is a chain of these
Swap(df, i, j) == [df EXCEPT ![i] = df[j], ![j] = df[i]]

\* C19 as stated: the row order given by the caller is significant, so some
\* reordering of the input rows changes which rows land in the test partition.
C19_ShufflingChangesTest ==
    (ml.pc = "returned" /\ Len(ml.df) >= 2) =>
        \E i, j \in 1..Len(ml.df) :
            RowsOf(prepare_data(Swap(ml.df, i, j), ml.columns_ok, ml.train_fraction).test)
                # RowsOf(ml.result[1].test)

\* C19 amended: prepare_data sorts by (city_id, year, month) itself, so for
\* rows with distinct keys exchanging any two input rows (hence any shuffle,
\* every row order being an input here) changes neither the outcome nor
\* which rows land in the training and test partitions.
C19_SplitIgnoresCallerOrder ==
    SplitDone =>
        \A i, j \in 1..Len(ml.df) :
            prepare_data(Swap(ml.df, i, j), ml.columns_ok, ml.train_fraction)
                = ml.result[1]

\* a split of four rows that were handed over in descending order
C19_Witness ==
    /\ ml.pc = "returned"
    /\ ml.train_fraction = <<2, 4>>
    /\ Len(ml.df) = 4
    /\ \A i \in 1..3 : KeyLess(ml.df[i + 1], ml.df[i])
    /\ Len(ml.result[1].test) = 2
    /\ ml.result[1].test[2] = ml.df[1]

\* row a is of a later (year, month) than row b
LaterMonth(a, b) == a.year > b.year \/ (a.year = b.year /\ a.month > b.month)

\* C20: the split leaks no future information into training: no row of the
\* training partition has a (year, month) later than that of a row of the test
\* partition, for any number of cities.
C20_NoFutureRowInTraining ==
    ml.pc = "returned" =>
        \A i \in 1..Len(ml.result[1].train), j \in 1..Len(ml.result[1].test) :
            ~LaterMonth(ml.result[1].train[i], ml.result[1].test[j])

\* the rows of every pipeline_ml_metrics table
MetricRows == UNION {{train.tables[p][i] : i \in 1..Len(train.tables[p])} : p \in Paths}

\* C21: every metric value training persists, in the metrics JSON and in the
\* MLMetricRecord row, is a finite computed number: a metric that cannot be
\* computed is left out, never stored as a placeholder 0, null or NaN.
C21_PersistedMetricsFinite ==
    /\ train.files.metrics_file # <<>> =>
         \A name \in DOMAIN train.files.metrics_file[1] :
             train.files.metrics_file[1][name] = "finite"
    /\ \A row \in MetricRows : \A name \in MetricNames : row.values[name] = "finite"

\* the steps of main() after evaluate_model, in the order the claim gives them
PersistOrder == <<"model", "metrics", "record", "log_ml_metrics">>

\* C22: in train.main the model artifact and the metrics JSON are written
\* before the MLMetricRecord is built and log_ml_metrics is attempted, and an
\* exception raised while building or inserting the record is caught: main
\* returns normally and both artifacts are in place.
C22_ArtifactsBeforeLoggingAndLoggingNeverFails ==
    /\ Len(train.proc.hist) <= 4
    /\ train.proc.hist = SubSeq(PersistOrder, 1, Len(train.proc.hist))
    /\ Len(train.proc.hist) >= 3 =>
         train.files.model_file /\ train.files.metrics_file = train.proc.metrics
    /\ train.proc.log_error # "none" =>
         /\ train.proc.pc = "returned"
         /\ train.files.model_file
         /\ train.files.metrics_file = train.proc.metrics

\* main has returned after log_ml_metrics raised during the insert
C22_Witness ==
    /\ train.proc.pc = "returned"
    /\ train.proc.log_error = "insert"
    /\ train.proc.hist = PersistOrder
    /\ train.files.model_file

\* C23: the observability row goes to the warehouse file the run operated on:
\* once training started with --db-path P has logged its metrics, the
\* pipeline_ml_metrics table of P holds the row of that run.
C23_MetricsRowInTheRunsWarehouse ==
    (train.proc.pc = "returned" /\ train.proc.log_error = "none") =>
        LET table == train.tables[train.proc.db_path] IN
        /\ table # <<>>
        /\ table[Len(table)] = train.proc.record[1] @@ [id |-> Len(table)]

\* C24: every component that opens a warehouse connection has closed it when
\* it returns or raises, and holds at most one connection at a time.
C24_ConnectionsClosedOnReturnOrRaise ==
    /\ train.proc.conns <= 1
    /\ predict.conns <= 1
    /\ train.proc.pc \in {"returned", "raised"} => train.proc.conns = 0
    /\ predict.pc \in {"returned", "raised"} => predict.conns = 0

\* predict.main has written the predictions table
PredictDone == predict.pc \in {"written", "returned"}

\* C25: inference overwrites in full: after a run the predictions table holds
\* exactly one row per feature row of this run that has no null feature, in
\* the same order, and nothing of earlier runs; a second run on the same
\* features and model leaves the table as the first run left it.
C25_PredictionsFullyOverwritten ==
    PredictDone =>
        /\ predict.table # <<>>
        /\ Len(predict.table[1]) = Len(SelectSeq(predict.df, IsComplete))
        /\ predict.table[1] =
               PredictionsOf(SelectSeq(predict.df, IsComplete), predict.model)
        /\ predict.last_input = <<[df |-> predict.df, model |-> predict.model]>>
               => predict.table = predict.before

\* a second run on the same two feature rows (one of them with a null
\* feature) and the same model has rewritten the table the first run wrote
C25_Witness ==
    /\ predict.pc = "returned"
    /\ predict.last_input = <<[df |-> predict.df, model |-> predict.model]>>
    /\ predict.before # <<>>
    /\ Len(predict.df) = 2
    /\ Len(predict.table[1]) = 1

\* the freshness statuses of the cities of the summary the check loaded
CheckStatuses ==
    {IF check.df[i] = NoDate THEN "unknown" ELSE StatusOfLag(today - check.df[i]) :
        i \in 1..Len(check.df)}

\* the check could not load a non-empty summary
CheckStructural == ~check.db_exists \/ ~check.query_ok \/ check.df = <<>>

\* C26: the ingestion health check exits with the worst severity present: 3
\* when the database is missing, the query fails or the table is empty, else 2
\* when a city is very_stale, else 1 when a city is stale or of unknown
\* freshness, else 0; and 0 exactly when every city is fresh.
C26_ExitCodeIsWorstSeverity ==
    check.pc = "exited" =>
        /\ check.exit_code[1] =
              (IF CheckStructural THEN 3
               ELSE IF "very_stale" \in CheckStatuses THEN 2
               ELSE IF "stale" \in CheckStatuses \/ "unknown" \in CheckStatuses THEN 1
               ELSE 0)
        /\ check.exit_code[1] = 0 <=>
              (~CheckStructural /\ CheckStatuses = {"fresh"})

\* a check of one stale and one very_stale city has exited with 2
C26_Witness ==
    /\ check.pc = "exited"
    /\ ~CheckStructural
    /\ CheckStatuses = {"stale", "very_stale"}
    /\ check.exit_code = <<2>>

\* C27: backoff schedule of fetch_daily_with_retries: the k-th sleep follows
\* failed attempt k, with k < max_retries, and lasts base_delay * 2^(k-1);
\* there is no sleep after a successful attempt or after the final failed
\* one, so a call that has returned after a >= 1 attempts has slept a - 1
\* times.
C27_BackoffSchedule ==
    ing.pc = "fetch" =>
        /\ \A k \in 1..Len(fetch.sleeps) :
              /\ fetch.sleeps[k] = 2 ^ (k - 1)
              /\ fetch.oks[k] = FALSE
              /\ k < fetch.max_retries
        /\ fetch.pc = "running" => Len(fetch.sleeps) = fetch.calls
        /\ (fetch.pc = "returned" /\ fetch.calls >= 1) =>
              Len(fetch.sleeps) = fetch.calls - 1

\* a call with max_retries = 3 has returned after three failed attempts and
\* two sleeps, of 1 and 2 base delays
C27_Witness ==
    /\ fetch.pc = "returned"
    /\ fetch.max_retries = 3
    /\ fetch.oks = <<FALSE, FALSE, FALSE>>
    /\ fetch.sleeps = <<1, 2>>

\* C28: fetch_daily_history retries only on HTTP 429: any other HTTP error or
\* exception is raised at once; after the attempt-th 429 it sleeps
\* backoff_seconds * 2^(attempt-1) and it raises after at most max_retries + 1
\* requests; one fetch_daily_with_retries call costs at most
\* (outer max_retries) * (inner max_retries + 1) requests.
C28_ClientRetriesOnlyOn429 ==
    LET n == Len(client.responses) IN
    /\ n = client.attempt
    /\ n <= client.max_retries + 1
    /\ \A i \in 1..(n - 1) : client.responses[i] = "429"
    /\ \A i \in 1..Len(client.sleeps) : client.sleeps[i] = 2 ^ (i - 1)
    /\ client.pc = "running" =>
          /\ Len(client.sleeps) = n
          /\ \A i \in 1..n : client.responses[i] = "429"
    /\ client.pc = "returned" =>
          /\ client.responses[n] = "ok"
          /\ Len(client.sleeps) = n - 1
    /\ client.pc = "raised" =>
          /\ client.responses[n] # "ok"
          /\ client.responses[n] = "429" => n = client.max_retries + 1
          /\ Len(client.sleeps) = n - 1
    /\ client.requests <= fetch.max_retries * (client.max_retries + 1)

\* the last client call of a fetch_daily_with_retries call with max_retries = 2
\* has raised after three 429s, and the two calls have cost six requests
C28_Witness ==
    /\ client.pc = "raised"
    /\ client.max_retries = 2
    /\ client.responses = <<"429", "429", "429">>
    /\ client.sleeps = <<1, 2>>
    /\ fetch.max_retries = 2
    /\ client.requests = 6

\* C29: backfill windowing covers the requested range exactly: for
\* start <= end the windows of one city, one per calendar year, are non-empty,
\* each within one year, pairwise disjoint, and their union is [start, end];
\* for start > end no window is requested.
C29_WindowsPartitionTheRange ==
    ing.mode = "backfill" =>
        LET ws == BackfillWindows(ing.start_date, ing.end_date)
            Days(i) == ws[i].start..ws[i].end
        IN
        /\ ing.start_date <= ing.end_date =>
              /\ Len(ws) = (ing.end_date \div YearLen) - (ing.start_date \div YearLen) + 1
              /\ \A i \in 1..Len(ws) :
                    /\ ws[i].start <= ws[i].end
                    /\ ws[i].start \div YearLen = ws[i].end \div YearLen
              /\ \A i, j \in 1..Len(ws) : i # j => Days(i) \cap Days(j) = {}
              /\ UNION {Days(i) : i \in 1..Len(ws)} = ing.start_date..ing.end_date
              /\ \A k \in 1..Len(ing.requested) :
                    \E i \in 1..Len(ws) :
                        ing.requested[k].year = ws[i].start \div YearLen
        /\ ing.start_date > ing.end_date =>
              /\ ing.requested = <<>>
              /\ ing.total_requests = 0

\* a backfill from the last day of the first year to the last day of the
\* current year has requested both windows of every city
C29_Witness ==
    /\ ing.mode = "backfill"
    /\ ing.pc = "done"
    /\ ing.start_date = YearLen - 1
    /\ ing.end_date = (CurrentYear + 1) * YearLen - 1
    /\ Len(ing.requested) = 2 * Len(CityList)
    /\ BackfillWindows(ing.start_date, ing.end_date)[1].start = YearLen - 1

\* C30: every IngestionSummary returned by run_backfill or run_recent has
\* successes + failures = total_requests and total_cities = the number of
\* input cities; failed_cities is in ascending order without duplicates, is
\* non-empty exactly when failures > 0, and is no longer than failures.
C30_SummaryIsConsistent ==
    ing.summary # <<>> =>
        LET sm == ing.summary[1]
            n == Len(sm.failed_cities)
        IN
        /\ sm.successes + sm.failures = sm.total_requests
        /\ sm.total_requests = Len(ing.requested)
        /\ sm.failures = Cardinality({k \in 1..Len(ing.outcomes) : ~ing.outcomes[k]})
        /\ sm.total_cities = Cardinality(Cities)
        /\ \A i, j \in 1..n :
              i < j => /\ sm.failed_cities[i] # sm.failed_cities[j]
                       /\ sm.failed_cities[i] = "Lisbon"
                       /\ sm.failed_cities[j] = "San Diego"
        /\ {sm.failed_cities[i] : i \in 1..n} =
              {ing.requested[k].city : k \in {k \in 1..Len(ing.outcomes) : ~ing.outcomes[k]}}
        /\ n > 0 <=> sm.failures > 0
        /\ n <= sm.failures

\* a backfill has returned a summary with three failed windows, two of them
\* of one city, and both cities in failed_cities
C30_Witness ==
    /\ ing.summary # <<>>
    /\ ing.summary[1].mode = "backfill"
    /\ ing.summary[1].failures = 3
    /\ ing.summary[1].successes = 1
    /\ ing.summary[1].failed_cities = <<"Lisbon", "San Diego">>

====
